---- MODULE Spec2Model ----
(***************************************************************************)
(* Model of arviz/utils.py: the variable selector _var_names, the          *)
(* flattener flatten_inference_data_to_dict, the Numba toggle with the     *)
(* lazily compiled functions, and of plots/forestplot.py: plot_forest.     *)
(*                                                                         *)
(* Python strings are sequences of one-character strings, so that          *)
(* startswith, slicing, substring containment and regex search are         *)
(* computed and not assumed.  Python None is the record NoneValue.         *)
(***************************************************************************)
EXTENDS Integers, Sequences, FiniteSets, TLC

VARIABLES
    var_names,      \* _var_names: argument var_names (None, str or list)
    data,           \* _var_names: argument data (one dataset or a list of them)
    filter_vars,    \* _var_names: argument filter_vars
    vn_pc,          \* _var_names: "start" before the call, "done" after it
    all_vars,       \* _var_names: local all_vars (utils.py:38-46)
    excluded_vars,  \* _var_names: local excluded_vars as built at utils.py:58-60
    vn_ret,         \* _var_names: the returned value
    vn_exc,         \* _var_names: the exception raised, with its offending names
    vn_warned,      \* _var_names: warnings.warn was called (utils.py:50)
    vn_inspected,   \* _var_names: data.data_vars was read (utils.py:41,46)
    fl_args,        \* flatten_inference_data_to_dict: the arguments of the call
    rcParams,       \* rcParams["data.index_origin"]
    fl_pc,          \* flatten: "groups", "format", "loop", "done" or "raised"
    groups,         \* flatten: local groups after utils.py:450-465
    dimensions,     \* flatten: local dimensions after utils.py:467-470
    separators,     \* flatten: the five separators set at utils.py:478-498
    index_origin,   \* flatten: local index_origin after utils.py:500-501
    data_dict,      \* flatten: local data_dict (utils.py:503)
    group_idx,      \* flatten: position of the loop of utils.py:504 in groups
    var_idx,        \* flatten: position of the loop of utils.py:507 in data_vars
    fl_ret,         \* flatten: the returned dictionary
    fl_exc,         \* flatten: the exception raised
    fl_processed,   \* flatten: the <<group, variable>> passes of the loop of
                    \* utils.py:507 that got beyond the `continue` of line 510
    numba_installed,   \* what numba_check() answers (utils.py:254-257)
    numba_importable,  \* importlib.import_module("numba") succeeds (utils.py:126)
    numba_flag,        \* Numba.numba_flag (utils.py:263)
    nb_instances,      \* the maybe_numba_fn instances made by conditional_jit
    numba_fn,          \* per instance: its attribute numba_fn once memoised
    nb_getter_runs,    \* per instance: how often the numba_fn getter has run
    nb_calls,          \* number of calls of wrapped functions so far
    nb_last,           \* the last operation and its outcome
    pf_args,           \* plot_forest: the arguments of the call
    pf_rc,             \* rcParams["stats.hpd_interval"] and rcParams["plot.backend"]
    pf_pc,             \* plot_forest: position in the body
    pf_hpd_interval,      \* plot_forest: local hpd_interval
    pf_datasets,          \* plot_forest: local datasets (forestplot.py:167)
    pf_var_names,      \* plot_forest: local var_names after forestplot.py:174
    pf_ncols,             \* plot_forest: local ncols
    pf_width_ratios,      \* plot_forest: local width_ratios
    pf_warned,         \* plot_forest: the deprecation warning was issued
    pf_plot_kwargs,    \* plot_forest: the arguments the backend function got
    pf_exc             \* plot_forest: the exception raised

vnVars == <<var_names, data, filter_vars, vn_pc, all_vars, excluded_vars,
            vn_ret, vn_exc, vn_warned, vn_inspected>>

flVars == <<fl_args, rcParams, fl_pc, groups, dimensions, separators, index_origin,
            data_dict, group_idx, var_idx, fl_ret, fl_exc, fl_processed>>

nbVars == <<numba_installed, numba_importable, numba_flag, nb_instances, numba_fn,
            nb_getter_runs, nb_calls, nb_last>>

pfVars == <<pf_args, pf_rc, pf_pc, pf_hpd_interval, pf_datasets, pf_var_names, pf_ncols,
            pf_width_ratios, pf_warned, pf_plot_kwargs, pf_exc>>

vars == <<vnVars, flVars, nbVars, pfVars>>

-----------------------------------------------------------------------------
(* Bounds of the explored inputs. *)

MaxSpecLen == 2      \* longest var_names list
MaxDatasets == 2     \* longest list of datasets
MaxDatasetVars == 2  \* most variables in one dataset
NumChains == 2       \* length of the chain dimension of the flattened data
NumDraws == 2        \* length of the draw dimension of the flattened data
NumSchools == 2      \* length of the school dimension of the flattened data
WideLen == 11        \* length of the row and col dimensions of the wide data

-----------------------------------------------------------------------------
(* Python values. *)

NoneValue == [kind |-> "none"]
PyStr(s) == [kind |-> "str", val |-> s]
PyList(l) == [kind |-> "list", val |-> l]
NoValue == [kind |-> "unset"]
NoException == [kind |-> "none"]

InSeq(x, s) == \E i \in 1..Len(s) : s[i] = x

NoDuplicates(s) == \A i, j \in 1..Len(s) : i # j => s[i] # s[j]

SeqsUpTo(S, n) == UNION {[1..k -> S] : k \in 0..n}

\* str.startswith("~")
StartsWithTilde(s) == Len(s) > 0 /\ s[1] = "~"

\* Python `p in s` for two strings: substring containment.
Contains(p, s) ==
    \E i \in 0..(Len(s) - Len(p)) : SubSeq(s, i + 1, i + Len(p)) = p

\* re.search for patterns made of literal characters, the start anchor "^"
\* and the wildcard ".": ReMatchAt matches p[k..] against s from offset i.
RECURSIVE ReMatchAt(_, _, _, _)
ReMatchAt(p, k, s, i) ==
    IF k > Len(p) THEN TRUE
    ELSE IF p[k] = "^" THEN i = 0 /\ ReMatchAt(p, k + 1, s, i)
    ELSE IF i >= Len(s) THEN FALSE
    ELSE (p[k] = "." \/ p[k] = s[i + 1]) /\ ReMatchAt(p, k + 1, s, i + 1)

ReSearch(p, s) == \E i \in 0..Len(s) : ReMatchAt(p, 1, s, i)

-----------------------------------------------------------------------------
(* _var_names, utils.py:15-91 *)

\* utils.py:35-36
NormalizeVarNames(vn) == IF vn.kind = "str" THEN <<vn.val>> ELSE vn.val

\* mutant of AppendUnseen: the test `var not in all_vars` is left out
AppendUnseen_NoSeenTest(acc, dataset_vars, j) ==
    acc \o SubSeq(dataset_vars, j, Len(dataset_vars))

\* utils.py:42-44: append the variables of one dataset not yet in acc
RECURSIVE AppendUnseen(_, _, _)
AppendUnseen(acc, dataset_vars, j) ==
    IF j > Len(dataset_vars) THEN acc
    ELSE AppendUnseen(IF InSeq(dataset_vars[j], acc) THEN acc
                      ELSE Append(acc, dataset_vars[j]),
                      dataset_vars, j + 1)

\* utils.py:39-44
RECURSIVE CollectAllVars(_, _, _)
CollectAllVars(acc, datasets, d) ==
    IF d > Len(datasets) THEN acc
    ELSE CollectAllVars(AppendUnseen(acc, datasets[d], 1), datasets, d + 1)

\* utils.py:38-46
AllVars(d) ==
    IF d.kind = "seq" THEN CollectAllVars(<<>>, d.val, 1) ELSE d.val

\* utils.py:48
AllVarsTilde(av) == SelectSeq(av, StartsWithTilde)

\* mutant of ExcludedVars: the test `var not in all_vars` is left out
ExcludedVars_NoPresenceTest(vn, av) ==
    LET sel == SelectSeq(vn, StartsWithTilde)
    IN  [i \in 1..Len(sel) |-> Tail(sel[i])]

\* utils.py:58-60
ExcludedVars(vn, av) ==
    LET IsExclusion(v) == StartsWithTilde(v) /\ ~InSeq(v, av)
        sel == SelectSeq(vn, IsExclusion)
    IN  [i \in 1..Len(sel) |-> Tail(sel[i])]

\* utils.py:61: str(filter_vars).lower()
LowerFilter(fv) ==
    IF fv = NoneValue THEN "none"
    ELSE IF fv.val \in {"like", "LIKE"} THEN "like"
    ELSE IF fv.val \in {"regex", "REGEX"} THEN "regex"
    ELSE fv.val

\* utils.py:66: list.remove deletes the first element equal to x
\* (ValueError when there is none)
HasFirst(l, x) == InSeq(x, l)
RemoveFirst(l, x) ==
    LET i == CHOOSE k \in 1..Len(l) :
                 l[k] = x /\ \A m \in 1..(k - 1) : l[m] # x
    IN  SubSeq(l, 1, i - 1) \o SubSeq(l, i + 1, Len(l))

\* mutant of RealVars: "like" compares for equality instead of containment
RealVars_LikeIsEquality(pattern, av, mode) ==
    IF mode = "like"
    THEN SelectSeq(av, LAMBDA real_var : pattern = real_var)
    ELSE SelectSeq(av, LAMBDA real_var : ReSearch(pattern, real_var))

\* utils.py:67-73
RealVars(pattern, av, mode) ==
    IF mode = "like"
    THEN SelectSeq(av, LAMBDA real_var : Contains(pattern, real_var))
    ELSE SelectSeq(av, LAMBDA real_var : ReSearch(pattern, real_var))

\* utils.py:65-74: the loop walks the copy excluded_vars[:] (snapshot) and
\* mutates the list cur; a failing remove raises ValueError.
RECURSIVE ExpandExcluded(_, _, _, _, _)
ExpandExcluded(snapshot, k, cur, av, mode) ==
    IF k > Len(snapshot) THEN [ok |-> TRUE, val |-> cur]
    ELSE IF ~HasFirst(cur, snapshot[k]) THEN [ok |-> FALSE, val |-> cur]
    ELSE ExpandExcluded(snapshot, k + 1,
                        RemoveFirst(cur, snapshot[k]) \o RealVars(snapshot[k], av, mode),
                        av, mode)

\* utils.py:75
NotExcluded(av, ex) == SelectSeq(av, LAMBDA var : ~InSeq(var, ex))

\* utils.py:79 and 81: [var for var in all_vars for name in var_names if match]
RECURSIVE MatchesOfVar(_, _, _, _)
MatchesOfVar(var, vn, j, mode) ==
    IF j > Len(vn) THEN <<>>
    ELSE (IF (IF mode = "like" THEN Contains(vn[j], var) ELSE ReSearch(vn[j], var))
          THEN <<var>> ELSE <<>>)
         \o MatchesOfVar(var, vn, j + 1, mode)

\* mutant of IncludedVars: the two loops are swapped (pattern-major order)
RECURSIVE IncludedVars_PatternMajor(_, _, _, _)
IncludedVars_PatternMajor(av, j, vn, mode) ==
    IF j > Len(vn) THEN <<>>
    ELSE SelectSeq(av, LAMBDA var : IF mode = "like" THEN Contains(vn[j], var)
                                    ELSE ReSearch(vn[j], var))
         \o IncludedVars_PatternMajor(av, j + 1, vn, mode)

RECURSIVE IncludedVars(_, _, _, _)
IncludedVars(av, i, vn, mode) ==
    IF i > Len(av) THEN <<>>
    ELSE MatchesOfVar(av[i], vn, 1, mode) \o IncludedVars(av, i + 1, vn, mode)

\* mutant of ResolveVarNames: exact mode keeps the listed names in the
\* order of all_vars
ResolveVarNames_DatasetOrder(vn, av, ex, mode) ==
    IF ex # <<>>
    THEN IF mode \in {"like", "regex"}
         THEN LET e == ExpandExcluded(ex, 1, ex, av, mode)
              IN  [ok |-> e.ok, val |-> NotExcluded(av, e.val)]
         ELSE [ok |-> TRUE, val |-> NotExcluded(av, ex)]
    ELSE IF mode \in {"like", "regex"}
         THEN [ok |-> TRUE, val |-> IncludedVars(av, 1, vn, mode)]
         ELSE [ok |-> TRUE, val |-> SelectSeq(av, LAMBDA var : InSeq(var, vn))]

\* mutant of ResolveVarNames: the exclusions are taken out of the listed
\* inclusion entries when there are some, and out of all_vars otherwise
ResolveVarNames_CombineInclusions(vn, av, ex, mode) ==
    LET inc == SelectSeq(vn, LAMBDA v : ~(StartsWithTilde(v) /\ ~InSeq(v, av)))
        from == IF inc # <<>> THEN inc ELSE av
    IN  IF ex # <<>>
        THEN IF mode \in {"like", "regex"}
             THEN LET e == ExpandExcluded(ex, 1, ex, av, mode)
                  IN  [ok |-> e.ok, val |-> NotExcluded(from, e.val)]
             ELSE [ok |-> TRUE, val |-> NotExcluded(from, ex)]
        ELSE IF mode \in {"like", "regex"}
             THEN [ok |-> TRUE, val |-> IncludedVars(av, 1, vn, mode)]
             ELSE [ok |-> TRUE, val |-> vn]

\* utils.py:63-81: the resolved var_names (ok = FALSE: list.remove raised)
ResolveVarNames(vn, av, ex, mode) ==
    IF ex # <<>>
    THEN IF mode \in {"like", "regex"}
         THEN LET e == ExpandExcluded(ex, 1, ex, av, mode)
              IN  [ok |-> e.ok, val |-> NotExcluded(av, e.val)]
         ELSE [ok |-> TRUE, val |-> NotExcluded(av, ex)]
    ELSE IF mode \in {"like", "regex"}
         THEN [ok |-> TRUE, val |-> IncludedVars(av, 1, vn, mode)]
         ELSE [ok |-> TRUE, val |-> vn]

\* mutant of MissingVars: np.any in place of np.all, so that the error is
\* raised only when no name exists
MissingVars_AnyInsteadOfAll(vn, av) ==
    IF \E i \in 1..Len(vn) : InSeq(vn[i], av) THEN <<>>
    ELSE SelectSeq(vn, LAMBDA v : ~InSeq(v, av))

\* utils.py:83-89: the entries np.isin reports as not existing
MissingVars(vn, av) == SelectSeq(vn, LAMBDA v : ~InSeq(v, av))

\* utils.py:33 and 91: var_names is None, the body is skipped
VarNamesAbsent(vn) ==
    [ret |-> vn, exc |-> NoException, warned |-> FALSE,
     inspected |-> FALSE, all_vars |-> NoValue, excluded_vars |-> NoValue]

\* utils.py:35-89: the body for a var_names that is not None
VarNamesPresent(vn, d, fv) ==
    LET names == NormalizeVarNames(vn)
        av == AllVars(d)
        ex == ExcludedVars(names, av)
        mode == LowerFilter(fv)
        res == ResolveVarNames(names, av, ex, mode)
        missing == MissingVars(res.val, av)
        base == [warned |-> AllVarsTilde(av) # <<>>, inspected |-> TRUE,
                 all_vars |-> PyList(av), excluded_vars |-> PyList(ex)]
    IN  IF ~res.ok
        THEN base @@ [ret |-> NoValue,
                      exc |-> [kind |-> "ValueError", names |-> <<>>]]
        ELSE IF missing # <<>>
        THEN base @@ [ret |-> NoValue,
                      exc |-> [kind |-> "KeyError", names |-> missing]]
        ELSE base @@ [ret |-> PyList(res.val), exc |-> NoException]

\* mutant of VarNamesCall: the "~" warning is computed before the None test
VarNamesCall_WarnBeforeNoneTest(vn, d, fv) ==
    IF vn # NoneValue THEN VarNamesPresent(vn, d, fv)
    ELSE [VarNamesAbsent(vn) EXCEPT !.warned = AllVarsTilde(AllVars(d)) # <<>>,
                                    !.inspected = TRUE]

\* utils.py:15-91, the whole call
VarNamesCall(vn, d, fv) ==
    IF vn # NoneValue THEN VarNamesPresent(vn, d, fv) ELSE VarNamesAbsent(vn)

-----------------------------------------------------------------------------
(* Inputs of _var_names. *)

\* variable names a dataset may declare: "a", "ba", "~a"
VarNameUniverse == {<<"a">>, <<"b", "a">>, <<"~", "a">>}

\* entries a specification may list: names, negated names, substrings and
\* regular expressions
SpecEntries == {<<"a">>, <<"b", "a">>, <<"~", "a">>, <<"b">>, <<"^", "a">>,
                <<"~", "b", "a">>, <<"~", "~", "a">>, <<"~", "^", "a">>}

\* a dataset is the ordered list of its data_vars; mapping keys are distinct
Datasets == {s \in SeqsUpTo(VarNameUniverse, MaxDatasetVars) : NoDuplicates(s)}

DataInputs == {[kind |-> "single", val |-> ds] : ds \in Datasets}
              \cup {[kind |-> "seq", val |-> l] : l \in SeqsUpTo(Datasets, MaxDatasets)}

VarNamesInputs == {NoneValue} \cup {PyStr(s) : s \in SpecEntries}
                  \cup {PyList(l) : l \in SeqsUpTo(SpecEntries, MaxSpecLen)}

FilterInputs == {NoneValue, PyStr("like"), PyStr("regex"), PyStr("LIKE")}

\* no call of _var_names is under way
VarNamesIdle ==
    /\ var_names = NoneValue
    /\ data = [kind |-> "seq", val |-> <<>>]
    /\ filter_vars = NoneValue
    /\ vn_pc = "idle"
    /\ all_vars = NoValue
    /\ excluded_vars = NoValue
    /\ vn_ret = NoValue
    /\ vn_exc = NoException
    /\ vn_warned = FALSE
    /\ vn_inspected = FALSE

\* no call of flatten_inference_data_to_dict is under way
FlattenIdle ==
    /\ fl_args = NoValue
    /\ rcParams = 0
    /\ fl_pc = "idle"
    /\ groups = NoValue
    /\ dimensions = NoValue
    /\ separators = NoValue
    /\ index_origin = NoValue
    /\ data_dict = NoValue
    /\ group_idx = 0
    /\ var_idx = 0
    /\ fl_ret = NoValue
    /\ fl_exc = NoException
    /\ fl_processed = <<>>

\* no wrapped function exists and the flag is off
NumbaIdle ==
    /\ numba_installed = FALSE
    /\ numba_importable = FALSE
    /\ numba_flag = FALSE
    /\ nb_instances = {}
    /\ numba_fn = <<>>
    /\ nb_getter_runs = <<>>
    /\ nb_calls = 0
    /\ nb_last = NoValue

\* no call of plot_forest is under way
PlotForestIdle ==
    /\ pf_args = NoValue
    /\ pf_rc = NoValue
    /\ pf_pc = "idle"
    /\ pf_hpd_interval = NoValue
    /\ pf_datasets = NoValue
    /\ pf_var_names = NoValue
    /\ pf_ncols = 0
    /\ pf_width_ratios = <<>>
    /\ pf_warned = FALSE
    /\ pf_plot_kwargs = NoValue
    /\ pf_exc = NoException

InitVarNames ==
    /\ var_names \in VarNamesInputs
    /\ data \in DataInputs
    /\ filter_vars \in FilterInputs
    /\ vn_pc = "start"
    /\ all_vars = NoValue
    /\ excluded_vars = NoValue
    /\ vn_ret = NoValue
    /\ vn_exc = NoException
    /\ vn_warned = FALSE
    /\ vn_inspected = FALSE
    /\ FlattenIdle
    /\ NumbaIdle
    /\ PlotForestIdle

\* one call of _var_names(var_names, data, filter_vars)
VarNames ==
    /\ vn_pc = "start"
    /\ LET r == VarNamesCall(var_names, data, filter_vars)
       IN  /\ all_vars' = r.all_vars
           /\ excluded_vars' = r.excluded_vars
           /\ vn_ret' = r.ret
           /\ vn_exc' = r.exc
           /\ vn_warned' = r.warned
           /\ vn_inspected' = r.inspected
    /\ vn_pc' = "done"
    /\ UNCHANGED <<var_names, data, filter_vars>>
    /\ UNCHANGED <<flVars, nbVars, pfVars>>

NextVarNames == VarNames

SpecVarNames == InitVarNames /\ [][NextVarNames]_vars

-----------------------------------------------------------------------------
(* flatten_inference_data_to_dict, utils.py:386-558 *)

\* the string literals of the function and of its inputs, as character lists
Str_posterior == <<"p", "o", "s", "t", "e", "r", "i", "o", "r">>
Str_posterior_predictive == <<"p", "o", "s", "t", "e", "r", "i", "o", "r", "_", "p", "r", "e", "d", "i", "c", "t", "i", "v", "e">>
Str_sample_stats == <<"s", "a", "m", "p", "l", "e", "_", "s", "t", "a", "t", "s">>
Str_prior == <<"p", "r", "i", "o", "r">>
Str_prior_predictive == <<"p", "r", "i", "o", "r", "_", "p", "r", "e", "d", "i", "c", "t", "i", "v", "e">>
Str_sample_stats_prior == <<"s", "a", "m", "p", "l", "e", "_", "s", "t", "a", "t", "s", "_", "p", "r", "i", "o", "r">>
Str_warmup_posterior == <<"w", "a", "r", "m", "u", "p", "_", "p", "o", "s", "t", "e", "r", "i", "o", "r">>
Str_warmup_posterior_predictive == <<"w", "a", "r", "m", "u", "p", "_", "p", "o", "s", "t", "e", "r", "i", "o", "r", "_", "p", "r", "e", "d", "i", "c", "t", "i", "v", "e">>
Str_warmup_sample_stats == <<"w", "a", "r", "m", "u", "p", "_", "s", "a", "m", "p", "l", "e", "_", "s", "t", "a", "t", "s">>
Str_posterior_groups == <<"p", "o", "s", "t", "e", "r", "i", "o", "r", "_", "g", "r", "o", "u", "p", "s">>
Str_prior_groups == <<"p", "r", "i", "o", "r", "_", "g", "r", "o", "u", "p", "s">>
Str_posterior_groups_warmup == <<"p", "o", "s", "t", "e", "r", "i", "o", "r", "_", "g", "r", "o", "u", "p", "s", "_", "w", "a", "r", "m", "u", "p">>
Str_chain == <<"c", "h", "a", "i", "n">>
Str_draw == <<"d", "r", "a", "w">>
Str_brackets == <<"b", "r", "a", "c", "k", "e", "t", "s">>
Str_underscore == <<"u", "n", "d", "e", "r", "s", "c", "o", "r", "e">>
Str_cds == <<"c", "d", "s">>
Str_ARVIZ_CDS_SELECTION == <<"_", "A", "R", "V", "I", "Z", "_", "C", "D", "S", "_", "S", "E", "L", "E", "C", "T", "I", "O", "N", "_">>
Str_ARVIZ_GROUP == <<"_", "A", "R", "V", "I", "Z", "_", "G", "R", "O", "U", "P", "_">>
Str_Prior_Groups == <<"P", "r", "i", "o", "r", "_", "G", "r", "o", "u", "p", "s">>
Str_CDS == <<"C", "D", "S">>
Str_xyz == <<"x", "y", "z">>
Str_mu == <<"m", "u">>
Str_theta == <<"t", "h", "e", "t", "a">>
Str_m == <<"m">>
Str_school == <<"s", "c", "h", "o", "o", "l">>
Str_row == <<"r", "o", "w">>
Str_col == <<"c", "o", "l">>

\* str.lower on the letters that occur
UpperLetters == {"A", "C", "D", "G", "I", "L", "N", "O", "P", "R", "S", "V"}
LowerChar(c) ==
    CASE c = "A" -> "a" [] c = "C" -> "c" [] c = "D" -> "d" [] c = "G" -> "g"
      [] c = "I" -> "i" [] c = "L" -> "l" [] c = "N" -> "n" [] c = "O" -> "o"
      [] c = "P" -> "p" [] c = "R" -> "r" [] c = "S" -> "s" [] c = "V" -> "v"
      [] OTHER -> c
LowerStr(str) == [i \in 1..Len(str) |-> LowerChar(str[i])]

\* str(n) for a natural number n
Digit(d) == CASE d = 0 -> "0" [] d = 1 -> "1" [] d = 2 -> "2" [] d = 3 -> "3"
              [] d = 4 -> "4" [] d = 5 -> "5" [] d = 6 -> "6" [] d = 7 -> "7"
              [] d = 8 -> "8" [] d = 9 -> "9"
RECURSIVE IntToStr(_)
IntToStr(n) == IF n < 10 THEN <<Digit(n)>> ELSE IntToStr(n \div 10) \o <<Digit(n % 10)>>

\* sep.join(items)
RECURSIVE Join(_, _)
Join(sep, items) ==
    IF items = <<>> THEN <<>>
    ELSE IF Len(items) = 1 THEN items[1]
    ELSE items[1] \o sep \o Join(sep, Tail(items))

\* utils.py:450-465: the selected groups (ok = FALSE: TypeError)
SelectGroups(g) ==
    IF g = NoneValue
    THEN [ok |-> TRUE, val |-> <<Str_posterior, Str_posterior_predictive, Str_sample_stats>>]
    ELSE IF g.kind = "str"
    THEN IF LowerStr(g.val) = Str_posterior_groups
         THEN [ok |-> TRUE,
               val |-> <<Str_posterior, Str_posterior_predictive, Str_sample_stats>>]
         ELSE IF LowerStr(g.val) = Str_prior_groups
         THEN [ok |-> TRUE,
               val |-> <<Str_prior, Str_prior_predictive, Str_sample_stats_prior>>]
         ELSE IF LowerStr(g.val) = Str_posterior_groups_warmup
         THEN [ok |-> TRUE,
               val |-> <<Str_warmup_posterior, Str_warmup_posterior_predictive,
                         Str_warmup_sample_stats>>]
         ELSE [ok |-> FALSE, val |-> <<>>]
    ELSE [ok |-> TRUE, val |-> g.val]

\* utils.py:467-470
SelectDimensions(d) ==
    IF d = NoneValue THEN <<Str_chain, Str_draw>>
    ELSE IF d.kind = "str" THEN <<d.val>>
    ELSE d.val

Separators(dj, ds, de, gs, ge) ==
    [ok |-> TRUE, dim_join_separator |-> dj, dim_separator_start |-> ds,
     dim_separator_end |-> de, group_separator_start |-> gs, group_separator_end |-> ge]

\* mutant of SelectFormat: a string that names no predefined format is
\* taken as "brackets" instead of raising
SelectFormat_UnknownIsBrackets(f) ==
    LET fmt == IF f = NoneValue THEN PyStr(Str_brackets)
               ELSE IF f.kind = "str" THEN PyStr(LowerStr(f.val))
               ELSE f
    IN  IF fmt = PyStr(Str_underscore)
        THEN Separators(<<"_">>, <<"_">>, <<>>, <<"_">>, <<>>)
        ELSE IF fmt = PyStr(Str_cds)
        THEN Separators(<<"_">>, Str_ARVIZ_CDS_SELECTION, <<>>, Str_ARVIZ_GROUP, <<>>)
        ELSE IF fmt.kind = "str"
        THEN Separators(<<",">>, <<"[">>, <<"]">>, <<"_">>, <<>>)
        ELSE Separators(fmt.val[1][1], fmt.val[1][2], fmt.val[1][3],
                        fmt.val[2][1], fmt.val[2][2])

\* utils.py:472-498: the separators of the format (ok = FALSE: TypeError)
SelectFormat(f) ==
    LET fmt == IF f = NoneValue THEN PyStr(Str_brackets)
               ELSE IF f.kind = "str" THEN PyStr(LowerStr(f.val))
               ELSE f
    IN  IF fmt = PyStr(Str_brackets)
        THEN Separators(<<",">>, <<"[">>, <<"]">>, <<"_">>, <<>>)
        ELSE IF fmt = PyStr(Str_underscore)
        THEN Separators(<<"_">>, <<"_">>, <<>>, <<"_">>, <<>>)
        ELSE IF fmt = PyStr(Str_cds)
        THEN Separators(<<"_">>, Str_ARVIZ_CDS_SELECTION, <<>>, Str_ARVIZ_GROUP, <<>>)
        ELSE IF fmt.kind = "str"
        THEN [Separators(<<>>, <<>>, <<>>, <<>>, <<>>) EXCEPT !.ok = FALSE]
        ELSE Separators(fmt.val[1][1], fmt.val[1][2], fmt.val[1][3],
                        fmt.val[2][1], fmt.val[2][2])

\* utils.py:500-501
SelectIndexOrigin(io, rc) == IF io = NoneValue THEN rc ELSE io.val

\* np.ndindex(shape): every index tuple of the shape, last axis fastest
RECURSIVE NdIndex(_)
NdIndex(shape) ==
    IF shape = <<>> THEN << <<>> >>
    ELSE LET rest == NdIndex(Tail(shape))
             n == Len(rest)
         IN  [k \in 1..(shape[1] * n) |-> <<(k - 1) \div n>> \o rest[((k - 1) % n) + 1]]

\* utils.py:505: hasattr(data, group), and getattr(data, group)
HasGroup(idata, group) == \E i \in 1..Len(idata.groups) : idata.groups[i].name = group
GetGroup(idata, group) ==
    idata.groups[CHOOSE i \in 1..Len(idata.groups) : idata.groups[i].name = group]

\* utils.py:506: after .stack(stack_dimension=dimensions) the dimensions of a
\* variable that are not stacked keep their order, the stacked axis is last
RemainingDims(var, dims) == SelectSeq(var.dims, LAMBDA d : ~InSeq(d, dims))

\* var.shape[:-1]
RemainingShape(group_data, var, dims) ==
    LET rem == RemainingDims(var, dims) IN [k \in 1..Len(rem) |-> group_data.sizes[rem[k]]]

\* the positions of the stacked axis: index tuples over dims, last fastest
StackPositions(group_data, dims) == NdIndex([k \in 1..Len(dims) |-> group_data.sizes[dims[k]]])

PositionIn(x, l) == CHOOSE i \in 1..Len(l) : l[i] = x

\* the element of a variable at loc (unstacked axes) and sp (stacked axes);
\* elements are kept symbolic: group, variable and index along var.dims
ElementAt(group, var, dims, loc, sp) ==
    [kind |-> "value", of |-> <<group, var.name>>,
     at |-> [k \in 1..Len(var.dims) |->
                IF InSeq(var.dims[k], dims) THEN sp[PositionIn(var.dims[k], dims)]
                ELSE loc[PositionIn(var.dims[k], RemainingDims(var, dims))]]]

\* utils.py:557: var_values[loc], the values of var along the stacked axis
ValuesAt(group_data, group, var, dims, loc) ==
    LET sps == StackPositions(group_data, dims)
    IN  [k \in 1..Len(sps) |-> ElementAt(group, var, dims, loc, sps[k])]

\* utils.py:513: var.coords.get(dim_name).values, the labels of one stacked
\* dimension along the stacked axis
CoordValues(group_data, dims, dim_name) ==
    LET sps == StackPositions(group_data, dims)
    IN  [k \in 1..Len(sps) |->
            [kind |-> "label", of |-> dim_name,
             at |-> group_data.coords[dim_name][sps[k][PositionIn(dim_name, dims)] + 1]]]

\* data_dict[key] = value
DictSet(dict, key, value) ==
    [k \in (DOMAIN dict) \cup {key} |-> IF k = key THEN value ELSE dict[k]]

EmptyDict == [k \in {} |-> <<>>]

\* utils.py:509: `var_name not in var_names` (substring test on a str,
\* membership on a list)
NotInVarNames(var_name, vn) ==
    IF vn.kind = "str" THEN ~Contains(var_name, vn.val) ELSE ~InSeq(var_name, vn.val)

\* utils.py:509-510: the variable is passed over
IsSkipped(var_name, vn) == vn # NoneValue /\ NotInVarNames(var_name, vn)

\* mutant of SetDimCoords: the dimension entries are written for every variable
SetDimCoords_AlwaysWrites(dict, group_data, dims, k) ==
    LET names == {dims[i] : i \in k..Len(dims)}
    IN  [key \in (DOMAIN dict) \cup names |->
            IF key \in names THEN CoordValues(group_data, dims, key) ELSE dict[key]]

\* utils.py:511-513
RECURSIVE SetDimCoords(_, _, _, _)
SetDimCoords(dict, group_data, dims, k) ==
    IF k > Len(dims) THEN dict
    ELSE SetDimCoords(IF dims[k] \in DOMAIN dict THEN dict
                      ELSE DictSet(dict, dims[k], CoordValues(group_data, dims, dims[k])),
                      group_data, dims, k + 1)

\* utils.py:515-525 and 529-555: the key of an entry
ScalarKey(var_name, group, ginfo, sep) ==
    IF ginfo
    THEN var_name \o sep.group_separator_start \o group \o sep.group_separator_end
    ELSE var_name

\* mutant of DimJoin: index_origin is not added to the indices
DimJoin_IgnoresOrigin(loc, origin, sep) ==
    Join(sep.dim_join_separator, [k \in 1..Len(loc) |-> IntToStr(loc[k])])

DimJoin(loc, origin, sep) ==
    Join(sep.dim_join_separator, [k \in 1..Len(loc) |-> IntToStr(loc[k] + origin)])

IndexedKey(var_name, group, ginfo, sep, loc, origin) ==
    IF ginfo
    THEN var_name \o sep.group_separator_start \o group \o sep.group_separator_end
         \o sep.dim_separator_start \o DimJoin(loc, origin, sep) \o sep.dim_separator_end
    ELSE var_name
         \o sep.dim_separator_start \o DimJoin(loc, origin, sep) \o sep.dim_separator_end

\* mutant of SetIndexedEntries: every entry gets var_values at the first loc
SetIndexedEntries_FirstLocValues(dict, group_data, group, var, dims, ginfo, sep, origin, locs, k) ==
    LET new_keys == {IndexedKey(var.name, group, ginfo, sep, locs[i], origin) :
                         i \in k..Len(locs)}
    IN  [key \in (DOMAIN dict) \cup new_keys |->
            IF key \in new_keys
            THEN ValuesAt(group_data, group, var, dims, locs[k])
            ELSE dict[key]]

\* utils.py:528-557: the loop over locs[k..] assigns data_dict[key] once per
\* loc, so a key ends up with the values of the last loc that produced it
SetIndexedEntries(dict, group_data, group, var, dims, ginfo, sep, origin, locs, k) ==
    LET KeyOf(i) == IndexedKey(var.name, group, ginfo, sep, locs[i], origin)
        new_keys == {KeyOf(i) : i \in k..Len(locs)}
        LastLoc(key) ==
            locs[CHOOSE i \in k..Len(locs) :
                     KeyOf(i) = key /\ \A j \in (i + 1)..Len(locs) : KeyOf(j) # key]
    IN  [key \in (DOMAIN dict) \cup new_keys |->
            IF key \in new_keys
            THEN ValuesAt(group_data, group, var, dims, LastLoc(key))
            ELSE dict[key]]

\* utils.py:507-557: one pass of the loop over the variables of a group
FlattenVar(dict, group_data, group, var, vn, dims, ginfo, sep, origin) ==
    IF IsSkipped(var.name, vn) THEN dict
    ELSE LET d1 == SetDimCoords(dict, group_data, dims, 1)
             shape == RemainingShape(group_data, var, dims)
         IN  IF Len(shape) + 1 = 1
             THEN DictSet(d1, ScalarKey(var.name, group, ginfo, sep),
                          ValuesAt(group_data, group, var, dims, <<>>))
             ELSE SetIndexedEntries(d1, group_data, group, var, dims, ginfo, sep, origin,
                                    NdIndex(shape), 1)

-----------------------------------------------------------------------------
(* Inputs and steps of flatten_inference_data_to_dict. *)

PyInt(n) == [kind |-> "int", val |-> n]
PyTuple(t) == [kind |-> "tuple", val |-> t]

Variable(name, dims) == [name |-> name, dims |-> dims]

\* a group: its data_vars in order, the length of each dimension and the
\* coordinate labels 0, 1, ... of each dimension
Group(name, variables, sizes) ==
    [name |-> name, vars |-> variables, sizes |-> sizes,
     coords |-> [d \in DOMAIN sizes |-> [i \in 1..sizes[d] |-> i - 1]]]

\* an InferenceData (after convert_to_inference_data, utils.py:448): the
\* groups posterior, sample_stats and prior; every variable has the
\* dimensions chain and draw, theta has the further dimension school; the
\* prior was sampled as a single chain
InferenceData ==
    [groups |-> <<Group(Str_posterior,
                        <<Variable(Str_mu, <<Str_chain, Str_draw>>),
                          Variable(Str_theta, <<Str_chain, Str_draw, Str_school>>)>>,
                        (Str_chain :> NumChains) @@ (Str_draw :> NumDraws)
                            @@ (Str_school :> NumSchools)),
                  Group(Str_sample_stats,
                        <<Variable(Str_m, <<Str_chain, Str_draw>>)>>,
                        (Str_chain :> NumChains) @@ (Str_draw :> NumDraws)),
                  Group(Str_prior,
                        <<Variable(Str_mu, <<Str_chain, Str_draw>>)>>,
                        (Str_chain :> 1) @@ (Str_draw :> NumDraws))>>]

\* an InferenceData whose only variable has two further dimensions long
\* enough for two-digit indices
WideInferenceData ==
    [groups |-> <<Group(Str_posterior,
                        <<Variable(Str_theta, <<Str_chain, Str_draw, Str_row, Str_col>>)>>,
                        (Str_chain :> 1) @@ (Str_draw :> NumDraws)
                            @@ (Str_row :> WideLen) @@ (Str_col :> WideLen))>>]

FlattenVarNamesInputs ==
    {NoneValue, PyStr(Str_mu), PyList(<<Str_theta>>), PyList(<<Str_mu, Str_m>>)}

FlattenGroupsInputs ==
    {NoneValue, PyStr(Str_posterior_groups), PyStr(Str_Prior_Groups),
     PyStr(Str_posterior_groups_warmup), PyStr(Str_posterior),
     PyList(<<Str_prior, Str_posterior>>), PyList(<<Str_posterior>>)}

FlattenDimensionsInputs ==
    {NoneValue, PyStr(Str_draw), PyTuple(<<Str_draw, Str_chain>>)}

FlattenFormatInputs ==
    {NoneValue, PyStr(Str_underscore), PyStr(Str_CDS), PyStr(Str_xyz),
     PyTuple(<< <<(<<",">>), (<<"[">>), (<<"]">>)>>, <<(<<"_">>), (<<>>)>> >>)}

FlattenIndexOriginInputs == {NoneValue, PyInt(0), PyInt(1)}

\* the format of the docstring example with every separator empty
EmptySeparators == PyTuple(<< <<(<<>>), (<<>>), (<<>>)>>, <<(<<>>), (<<>>)>> >>)

FlattenArgs ==
    [data : {InferenceData},
     var_names : FlattenVarNamesInputs,
     groups : FlattenGroupsInputs,
     dimensions : FlattenDimensionsInputs,
     group_info : BOOLEAN,
     var_name_format : FlattenFormatInputs,
     index_origin : FlattenIndexOriginInputs]
    \cup
    [data : {WideInferenceData},
     var_names : {NoneValue},
     groups : {NoneValue},
     dimensions : {NoneValue},
     group_info : BOOLEAN,
     var_name_format : {PyStr(Str_underscore), EmptySeparators},
     index_origin : {PyInt(0), PyInt(1)}]

InitFlatten ==
    /\ fl_args \in FlattenArgs
    /\ rcParams \in IF fl_args.index_origin = NoneValue THEN {0, 1} ELSE {0}
    /\ fl_pc = "groups"
    /\ groups = NoValue
    /\ dimensions = NoValue
    /\ separators = NoValue
    /\ index_origin = NoValue
    /\ data_dict = NoValue
    /\ group_idx = 0
    /\ var_idx = 0
    /\ fl_ret = NoValue
    /\ fl_exc = NoException
    /\ fl_processed = <<>>
    /\ VarNamesIdle
    /\ NumbaIdle
    /\ PlotForestIdle

\* utils.py:450-470: the groups and the dimensions
FlattenSelectGroups ==
    /\ fl_pc = "groups"
    /\ LET g == SelectGroups(fl_args.groups)
       IN  IF g.ok
           THEN /\ groups' = g.val
                /\ dimensions' = SelectDimensions(fl_args.dimensions)
                /\ fl_pc' = "format"
                /\ UNCHANGED fl_exc
           ELSE /\ fl_exc' = [kind |-> "TypeError"]
                /\ fl_pc' = "raised"
                /\ UNCHANGED <<groups, dimensions>>
    /\ UNCHANGED <<fl_args, rcParams, separators, index_origin, data_dict,
                   group_idx, var_idx, fl_ret, fl_processed>>
    /\ UNCHANGED <<vnVars, nbVars, pfVars>>

\* utils.py:472-503: the separators, the index origin and the empty data_dict
FlattenSelectFormat ==
    /\ fl_pc = "format"
    /\ LET f == SelectFormat(fl_args.var_name_format)
       IN  IF f.ok
           THEN /\ separators' = f
                /\ index_origin' = SelectIndexOrigin(fl_args.index_origin, rcParams)
                /\ data_dict' = EmptyDict
                /\ group_idx' = 1
                /\ var_idx' = 1
                /\ fl_pc' = "loop"
                /\ UNCHANGED fl_exc
           ELSE /\ fl_exc' = [kind |-> "TypeError"]
                /\ fl_pc' = "raised"
                /\ UNCHANGED <<separators, index_origin, data_dict, group_idx, var_idx>>
    /\ UNCHANGED <<fl_args, rcParams, groups, dimensions, fl_ret, fl_processed>>
    /\ UNCHANGED <<vnVars, nbVars, pfVars>>

\* utils.py:504-505: a group that the data does not have is passed over
FlattenSkipGroup ==
    /\ fl_pc = "loop"
    /\ group_idx <= Len(groups)
    /\ ~HasGroup(fl_args.data, groups[group_idx])
    /\ group_idx' = group_idx + 1
    /\ var_idx' = 1
    /\ UNCHANGED <<fl_args, rcParams, fl_pc, groups, dimensions, separators,
                   index_origin, data_dict, fl_ret, fl_exc, fl_processed>>
    /\ UNCHANGED <<vnVars, nbVars, pfVars>>

\* utils.py:507-557: the next variable of the current group
FlattenVariable ==
    /\ fl_pc = "loop"
    /\ group_idx <= Len(groups)
    /\ HasGroup(fl_args.data, groups[group_idx])
    /\ LET group_data == GetGroup(fl_args.data, groups[group_idx])
       IN  /\ var_idx <= Len(group_data.vars)
           /\ data_dict' = FlattenVar(data_dict, group_data, groups[group_idx],
                                      group_data.vars[var_idx], fl_args.var_names,
                                      dimensions, fl_args.group_info, separators,
                                      index_origin)
           /\ fl_processed' =
                  IF IsSkipped(group_data.vars[var_idx].name, fl_args.var_names)
                  THEN fl_processed
                  ELSE Append(fl_processed,
                              <<groups[group_idx], group_data.vars[var_idx].name>>)
    /\ var_idx' = var_idx + 1
    /\ UNCHANGED <<fl_args, rcParams, fl_pc, groups, dimensions, separators,
                   index_origin, group_idx, fl_ret, fl_exc>>
    /\ UNCHANGED <<vnVars, nbVars, pfVars>>

\* utils.py:507: the variables of the current group are exhausted
FlattenEndGroup ==
    /\ fl_pc = "loop"
    /\ group_idx <= Len(groups)
    /\ HasGroup(fl_args.data, groups[group_idx])
    /\ var_idx > Len(GetGroup(fl_args.data, groups[group_idx]).vars)
    /\ group_idx' = group_idx + 1
    /\ var_idx' = 1
    /\ UNCHANGED <<fl_args, rcParams, fl_pc, groups, dimensions, separators,
                   index_origin, data_dict, fl_ret, fl_exc, fl_processed>>
    /\ UNCHANGED <<vnVars, nbVars, pfVars>>

\* utils.py:558
FlattenReturn ==
    /\ fl_pc = "loop"
    /\ group_idx > Len(groups)
    /\ fl_ret' = data_dict
    /\ fl_pc' = "done"
    /\ UNCHANGED <<fl_args, rcParams, groups, dimensions, separators, index_origin,
                   data_dict, group_idx, var_idx, fl_exc, fl_processed>>
    /\ UNCHANGED <<vnVars, nbVars, pfVars>>

NextFlatten ==
    \/ FlattenSelectGroups
    \/ FlattenSelectFormat
    \/ FlattenSkipGroup
    \/ FlattenVariable
    \/ FlattenEndGroup
    \/ FlattenReturn

SpecFlatten == InitFlatten /\ [][NextFlatten]_vars

-----------------------------------------------------------------------------
(* Vocabulary of the properties of _var_names. *)

Range(s) == {s[i] : i \in 1..Len(s)}

\* the datasets of data, as a list
DatasetList(d) == IF d.kind = "seq" THEN d.val ELSE <<d.val>>

\* the universal set: every variable name of every supplied dataset
DataNames(d) == UNION {Range(DatasetList(d)[i]) : i \in 1..Len(DatasetList(d))}

\* the universal names in the order the single dataset declares them
\* (data is one dataset), else in the order all_vars holds them
UniversalList(d) == IF d.kind = "seq" THEN all_vars.val ELSE d.val

\* the entries the caller listed
ListedEntries == IF var_names.kind = "str" THEN <<var_names.val>> ELSE var_names.val

\* an entry is an exclusion pattern when it starts with "~" and is not
\* itself the name of a variable of the data
IsExclusionEntry(e) == StartsWithTilde(e) /\ e \notin DataNames(data)

ExclusionEntries == SelectSeq(ListedEntries, IsExclusionEntry)
InclusionEntries == SelectSeq(ListedEntries, LAMBDA e : ~IsExclusionEntry(e))

\* the exclusion patterns, marker stripped
ExclusionPatterns == {Tail(e) : e \in Range(ExclusionEntries)}

FilterMode ==
    IF filter_vars = NoneValue THEN "exact"
    ELSE IF filter_vars.val \in {"like", "LIKE"} THEN "like"
    ELSE IF filter_vars.val \in {"regex", "REGEX"} THEN "regex"
    ELSE "exact"

\* a pattern matches a name: containment for "like", search for "regex"
Matches(p, name) ==
    IF FilterMode = "like" THEN Contains(p, name) ELSE ReSearch(p, name)

VarNamesDone == vn_pc = "done"
VarNamesGiven == vn_pc = "done" /\ var_names # NoneValue
VarNamesReturnedList == vn_ret.kind = "list"
VarNamesRaisedKeyError == vn_exc.kind = "KeyError"

\* position of the first occurrence of x in the list l (0 when absent)
IndexOf(x, l) ==
    IF InSeq(x, l) THEN CHOOSE i \in 1..Len(l) : l[i] = x /\ \A j \in 1..(i - 1) : l[j] # x
    ELSE 0

-----------------------------------------------------------------------------
(* C1: in exact mode every listed entry that is not an exclusion pattern   *)
(* is in the returned list, or the call raised KeyError; also when the     *)
(* specification holds exclusion entries.                                  *)
C1_ListedNameNeverDropped ==
    (VarNamesGiven /\ FilterMode = "exact") =>
        \A e \in Range(InclusionEntries) :
            \/ VarNamesRaisedKeyError
            \/ VarNamesReturnedList /\ InSeq(e, vn_ret.val)

(* C2: an absent specification returns None for every data and every      *)
(* filter mode, with no error, no warning and no read of the data.         *)
C2_NoneReturnsNone ==
    (VarNamesDone /\ var_names = NoneValue) =>
        /\ vn_ret = NoneValue
        /\ vn_exc = NoException
        /\ ~vn_warned
        /\ ~vn_inspected

C2_Witness ==
    /\ VarNamesDone
    /\ var_names = NoneValue
    /\ vn_ret = NoneValue
    /\ filter_vars = PyStr("regex")
    /\ data.kind = "seq"
    /\ \E n \in DataNames(data) : StartsWithTilde(n)

(* C3: exact mode, no exclusion entry, every listed name present: the      *)
(* result is the specification as a list, a string S giving [S] and a list *)
(* giving the same elements in the same order and multiplicity.            *)
C3_ExactReturnsSpecification ==
    (/\ VarNamesGiven
     /\ FilterMode = "exact"
     /\ ExclusionEntries = <<>>
     /\ \A e \in Range(ListedEntries) : e \in DataNames(data)) =>
        /\ vn_exc = NoException
        /\ VarNamesReturnedList
        /\ var_names.kind = "str" => vn_ret.val = <<var_names.val>>
        /\ var_names.kind = "list" => vn_ret.val = var_names.val

\* a list in the reverse of the dataset's order, and a list with a repeated name
C3_Witness ==
    /\ VarNamesGiven
    /\ FilterMode = "exact"
    /\ data = [kind |-> "single", val |-> <<(<<"a">>), (<<"b", "a">>)>>]
    /\ var_names = PyList(<<(<<"b", "a">>), (<<"a">>)>>)
    /\ vn_ret = PyList(<<(<<"b", "a">>), (<<"a">>)>>)

(* C4: with an exclusion pattern under "like" or "regex" the result is     *)
(* exactly the universal names matching no exclusion pattern, in universal *)
(* order, each once; whatever the number, order and repetition of the      *)
(* patterns.                                                               *)
C4_ExclusionUnderFilter ==
    (VarNamesGiven /\ ExclusionEntries # <<>> /\ FilterMode \in {"like", "regex"}) =>
        /\ vn_exc = NoException
        /\ VarNamesReturnedList
        /\ vn_ret.val = SelectSeq(UniversalList(data),
                                  LAMBDA n : \A p \in ExclusionPatterns : ~Matches(p, n))
        /\ NoDuplicates(vn_ret.val)

\* the second pattern is a variable name that expanding the first pattern
\* has already put into the list
C4_Witness ==
    /\ VarNamesGiven
    /\ FilterMode = "like"
    /\ Len(ExclusionEntries) = 2
    /\ Tail(ExclusionEntries[2]) \in DataNames(data)
    /\ Tail(ExclusionEntries[1]) # Tail(ExclusionEntries[2])
    /\ Contains(Tail(ExclusionEntries[1]), Tail(ExclusionEntries[2]))
    /\ VarNamesReturnedList

(* C5: no returned name is absent from the universal set; in exact mode    *)
(* with no exclusion entry, listing a name that no dataset holds raises    *)
(* KeyError naming the absent entries, and nothing is returned.            *)
C5_AbsentNameRaisesKeyError ==
    /\ (VarNamesDone /\ VarNamesReturnedList) =>
           \A n \in Range(vn_ret.val) : n \in DataNames(data)
    /\ (/\ VarNamesGiven
        /\ FilterMode = "exact"
        /\ ExclusionEntries = <<>>
        /\ \E e \in Range(ListedEntries) : e \notin DataNames(data)) =>
           /\ VarNamesRaisedKeyError
           /\ vn_exc.names = SelectSeq(ListedEntries, LAMBDA e : e \notin DataNames(data))
           /\ vn_ret = NoValue

\* one listed name is present and another is not
C5_Witness ==
    /\ VarNamesGiven
    /\ FilterMode = "exact"
    /\ ExclusionEntries = <<>>
    /\ \E e \in Range(ListedEntries) : e \in DataNames(data)
    /\ \E e \in Range(ListedEntries) : e \notin DataNames(data)
    /\ VarNamesRaisedKeyError

(* C6: with no exclusion pattern under "like" (or "regex") the names       *)
(* returned are the universal names matched by at least one inclusion      *)
(* pattern, ordered by position in the universal list; a pattern matching  *)
(* nothing adds nothing and raises nothing.                                *)
C6_InclusionUnderFilter ==
    (VarNamesGiven /\ ExclusionEntries = <<>> /\ FilterMode \in {"like", "regex"}) =>
        /\ vn_exc = NoException
        /\ VarNamesReturnedList
        /\ Range(vn_ret.val) =
               {n \in DataNames(data) : \E p \in Range(ListedEntries) : Matches(p, n)}
        /\ \A i, j \in 1..Len(vn_ret.val) :
               i < j => IndexOf(vn_ret.val[i], UniversalList(data))
                            <= IndexOf(vn_ret.val[j], UniversalList(data))

\* two patterns, the first of which matches no variable, and two names returned
C6_Witness ==
    /\ VarNamesGiven
    /\ FilterMode = "like"
    /\ ExclusionEntries = <<>>
    /\ Len(ListedEntries) = 2
    /\ \A n \in DataNames(data) : ~Matches(ListedEntries[1], n)
    /\ VarNamesReturnedList
    /\ Cardinality(Range(vn_ret.val)) = 2

\* first occurrence of a name in a list of datasets: <<dataset, position>>
FirstSeen(n, dl) ==
    CHOOSE p \in {<<i, j>> : i \in 1..Len(dl), j \in 1..MaxDatasetVars + 1} :
        /\ p[2] <= Len(dl[p[1]])
        /\ dl[p[1]][p[2]] = n
        /\ \A i \in 1..(p[1] - 1) : ~InSeq(n, dl[i])

SeenBefore(p, q) == p[1] < q[1] \/ (p[1] = q[1] /\ p[2] < q[2])

(* C7: for a sequence of datasets the universal list is the union of the   *)
(* datasets' names in first-seen order, every name once; it is the result  *)
(* of an exact-mode specification of one exclusion entry naming no         *)
(* variable.                                                               *)
C7_UniversalListFirstSeen ==
    (VarNamesGiven /\ data.kind = "seq") =>
        /\ all_vars.kind = "list"
        /\ Range(all_vars.val) = DataNames(data)
        /\ NoDuplicates(all_vars.val)
        /\ \A i, j \in 1..Len(all_vars.val) :
               i < j => SeenBefore(FirstSeen(all_vars.val[i], data.val),
                                   FirstSeen(all_vars.val[j], data.val))
        /\ (/\ FilterMode = "exact"
            /\ Len(ListedEntries) = 1
            /\ Len(ExclusionEntries) = 1
            /\ Tail(ExclusionEntries[1]) \notin DataNames(data)) =>
               vn_ret = all_vars

\* two datasets sharing a name, declared in different orders
C7_Witness ==
    /\ VarNamesGiven
    /\ FilterMode = "exact"
    /\ data = [kind |-> "seq", val |-> << <<(<<"b", "a">>), (<<"a">>)>>,
                                          <<(<<"a">>), (<<"~", "a">>)>> >>]
    /\ var_names = PyList(<<(<<"~", "^", "a">>)>>)
    /\ vn_ret = PyList(<<(<<"b", "a">>), (<<"a">>), (<<"~", "a">>)>>)

(* C8: an entry starting with "~" that names a variable of the data is not *)
(* an exclusion: excluded_vars holds only the entries that start with "~"  *)
(* and name no variable, and in exact mode a specification of such literal *)
(* entries is returned as listed.  A warning is emitted exactly when the   *)
(* specification is given and some variable name starts with "~", and the  *)
(* call then still returns or raises KeyError.                             *)
C8_TildeVariableIsLiteral ==
    /\ VarNamesGiven =>
           /\ excluded_vars.kind = "list"
           /\ excluded_vars.val =
                  [i \in 1..Len(ExclusionEntries) |-> Tail(ExclusionEntries[i])]
           /\ vn_warned <=> \E n \in DataNames(data) : StartsWithTilde(n)
           /\ vn_warned => (VarNamesReturnedList \/ VarNamesRaisedKeyError)
    /\ (/\ VarNamesGiven
        /\ FilterMode = "exact"
        /\ \A e \in Range(ListedEntries) : StartsWithTilde(e) /\ e \in DataNames(data)) =>
           vn_ret = PyList(ListedEntries)
    /\ (VarNamesDone /\ var_names = NoneValue) => ~vn_warned

\* "~a" and "a" are both variables and the caller lists "~a"
C8_Witness ==
    /\ VarNamesGiven
    /\ FilterMode = "exact"
    /\ {<<"a">>, <<"~", "a">>} \subseteq DataNames(data)
    /\ var_names = PyStr(<<"~", "a">>)
    /\ vn_ret = PyList(<<(<<"~", "a">>)>>)
    /\ vn_warned

(* C9: when the specification holds an exclusion pattern, its inclusion    *)
(* entries have no effect: the call returns what the specification reduced *)
(* to its exclusion entries returns, every universal name outside the      *)
(* expanded exclusion set.                                                 *)
C9_ExclusionsShortCircuit ==
    (VarNamesGiven /\ ExclusionEntries # <<>>) =>
        /\ vn_exc = NoException
        /\ VarNamesReturnedList
        /\ vn_ret = VarNamesCall(PyList(ExclusionEntries), data, filter_vars).ret
        /\ Range(vn_ret.val) =
               {n \in DataNames(data) :
                   \A p \in ExclusionPatterns :
                       IF FilterMode = "exact" THEN n # p ELSE ~Matches(p, n)}

\* the specification also lists a name that no dataset holds
C9_Witness ==
    /\ VarNamesGiven
    /\ ExclusionEntries # <<>>
    /\ \E e \in Range(InclusionEntries) : e \notin DataNames(data)
    /\ VarNamesReturnedList
    /\ vn_ret.val # <<>>

-----------------------------------------------------------------------------
(* Vocabulary of the properties of flatten_inference_data_to_dict. *)

PredefinedGroupSets == {Str_posterior_groups, Str_prior_groups, Str_posterior_groups_warmup}
PredefinedFormats == {Str_brackets, Str_underscore, Str_cds}

\* groups is a string that names, in any letter case, no predefined group set
FlattenInvalidGroups ==
    /\ fl_args.groups.kind = "str"
    /\ LowerStr(fl_args.groups.val) \notin PredefinedGroupSets

\* var_name_format is a string that names, in any letter case, no predefined format
FlattenInvalidFormat ==
    /\ fl_args.var_name_format.kind = "str"
    /\ LowerStr(fl_args.var_name_format.val) \notin PredefinedFormats

FlattenNothingFlattened ==
    /\ data_dict = NoValue
    /\ fl_ret = NoValue
    /\ group_idx = 0
    /\ var_idx = 0

C10_StateInvariant ==
    /\ FlattenInvalidGroups => fl_pc \in {"groups", "raised"}
    /\ FlattenInvalidFormat => fl_pc \in {"groups", "format", "raised"}
    /\ (FlattenInvalidGroups \/ FlattenInvalidFormat) => FlattenNothingFlattened
    /\ fl_pc \in {"groups", "format", "raised"} => FlattenNothingFlattened
    /\ fl_pc = "raised" =>
           /\ fl_exc = [kind |-> "TypeError"]
           /\ FlattenInvalidGroups \/ FlattenInvalidFormat

C10_Step ==
    /\ (fl_pc = "groups" /\ FlattenInvalidGroups) => fl_pc' = "raised"
    /\ (fl_pc = "format" /\ FlattenInvalidFormat) => fl_pc' = "raised"

(* C10: a groups string or a var_name_format string that names, in any     *)
(* letter case, no predefined option makes the call raise TypeError; the   *)
(* call then returns no dictionary, and both validations are over before   *)
(* data_dict exists and before any group or variable is visited.           *)
C10_InvalidOptionRaisesTypeError == [](C10_StateInvariant) /\ [][C10_Step]_vars

\* groups names a predefined set in mixed case and passes, the format "xyz" raises
C10_Witness ==
    /\ fl_pc = "raised"
    /\ fl_exc = [kind |-> "TypeError"]
    /\ fl_args.groups = PyStr(Str_Prior_Groups)
    /\ fl_args.var_name_format = PyStr(Str_xyz)
    /\ groups = <<Str_prior, Str_prior_predictive, Str_sample_stats_prior>>
    /\ FlattenNothingFlattened

\* the call has returned
FlattenDone == fl_pc = "done"

\* the format in force names a predefined format (None stands for "brackets")
FormatNamed(name) ==
    IF fl_args.var_name_format = NoneValue THEN name = Str_brackets
    ELSE /\ fl_args.var_name_format.kind = "str"
         /\ LowerStr(fl_args.var_name_format.val) = name

\* the documented (sep, start, end) of the predefined formats
DocumentedDimSeparators ==
    IF FormatNamed(Str_brackets) THEN <<(<<",">>), (<<"[">>), (<<"]">>)>>
    ELSE IF FormatNamed(Str_underscore) THEN <<(<<"_">>), (<<"_">>), (<<>>)>>
    ELSE <<(<<"_">>), Str_ARVIZ_CDS_SELECTION, (<<>>)>>

FormatIsPredefined ==
    FormatNamed(Str_brackets) \/ FormatNamed(Str_underscore) \/ FormatNamed(Str_cds)

\* the <<group record, variable record>> pairs of the selected groups that
\* the data has and of their variables that line 509 does not pass over
FlattenedVariables ==
    {<<g, v>> \in UNION {{<<fl_args.data.groups[i], fl_args.data.groups[i].vars[j]>> :
                             j \in 1..Len(fl_args.data.groups[i].vars)} :
                         i \in 1..Len(fl_args.data.groups)} :
        /\ InSeq(g.name, groups)
        /\ ~IsSkipped(v.name, fl_args.var_names)}

\* every combination of indices of the non-stacked dimensions of a variable
IndexCombinations(g, v) ==
    LET rem == RemainingDims(v, dimensions)
        longest == CHOOSE n \in {g.sizes[d] : d \in DOMAIN g.sizes} :
                       \A d \in DOMAIN g.sizes : g.sizes[d] <= n
    IN  {loc \in [1..Len(rem) -> 0..(longest - 1)] :
            \A k \in 1..Len(rem) : loc[k] < g.sizes[rem[k]]}

\* the keys documented for a variable when group_info is false
DocumentedKeys(g, v) ==
    IF RemainingDims(v, dimensions) = <<>> THEN {v.name}
    ELSE {v.name \o DocumentedDimSeparators[2]
              \o Join(DocumentedDimSeparators[1],
                      [k \in 1..Len(loc) |-> IntToStr(loc[k] + index_origin)])
              \o DocumentedDimSeparators[3] : loc \in IndexCombinations(g, v)}

\* the call of the example: the group posterior (mu and theta) only,
\* stacked over chain and draw, brackets
FlattenExampleCall ==
    /\ fl_args.data = InferenceData
    /\ fl_args.var_names = NoneValue
    /\ fl_args.groups = PyList(<<Str_posterior>>)
    /\ fl_args.dimensions = NoneValue
    /\ fl_args.var_name_format = NoneValue
    /\ ~fl_args.group_info

(* C11: with group_info false and a predefined format, the keys of the     *)
(* result are, for every selected group the data has and every variable    *)
(* that is not passed over, the bare name when the stacked axis is the     *)
(* only dimension and else name + start + join(sep, index + index_origin)  *)
(* + end for every index combination, plus the stacked dimension names; in *)
(* the example this is {mu, theta[0], theta[1], chain, draw}, and          *)
(* theta[1], theta[2] under index_origin 1.                                *)
C11_KeysWithoutGroupInfo ==
    /\ (FlattenDone /\ ~fl_args.group_info /\ FormatIsPredefined) =>
           DOMAIN fl_ret =
               UNION {DocumentedKeys(p[1], p[2]) : p \in FlattenedVariables}
               \cup (IF FlattenedVariables = {} THEN {} ELSE Range(dimensions))
    /\ (FlattenDone /\ FlattenExampleCall /\ NumSchools = 2 /\ index_origin = 0) =>
           DOMAIN fl_ret = {Str_mu, Str_chain, Str_draw,
                            Str_theta \o <<"[", "0", "]">>,
                            Str_theta \o <<"[", "1", "]">>}
    /\ (FlattenDone /\ FlattenExampleCall /\ NumSchools = 2 /\ index_origin = 1) =>
           DOMAIN fl_ret = {Str_mu, Str_chain, Str_draw,
                            Str_theta \o <<"[", "1", "]">>,
                            Str_theta \o <<"[", "2", "]">>}

\* the example call under index_origin 1
C11_Witness ==
    /\ FlattenDone
    /\ FlattenExampleCall
    /\ fl_args.index_origin = PyInt(1)
    /\ Str_mu \in DOMAIN fl_ret
    /\ (Str_theta \o <<"[", Digit(NumSchools), "]">>) \in DOMAIN fl_ret
    /\ Str_chain \in DOMAIN fl_ret

\* the keys the docstring (utils.py:420-438) gives for the element (0,0) of
\* theta of the group posterior when group_info is true
Doc_theta_posterior_brackets ==
    <<"t", "h", "e", "t", "a", "_", "p", "o", "s", "t", "e", "r", "i", "o",
        "r", "[", "0", ",", "0", "]">>
Doc_theta_posterior_underscore ==
    <<"t", "h", "e", "t", "a", "_", "p", "o", "s", "t", "e", "r", "i", "o",
        "r", "_", "0", "_", "0", "_">>
Doc_theta_posterior_cds ==
    <<"t", "h", "e", "t", "a", "_", "A", "R", "V", "I", "Z", "_", "G", "R",
        "O", "U", "P", "_", "p", "o", "s", "t", "e", "r", "i", "o", "r", "_",
        "_", "A", "R", "V", "I", "Z", "_", "C", "D", "S", "_", "S", "E", "L",
        "E", "C", "T", "I", "O", "N", "_", "0", "_", "0">>

\* theta of the group posterior is flattened and keeps two non-stacked dimensions
ThetaOfPosteriorHasTwoIndices ==
    \E p \in FlattenedVariables :
        /\ p[1].name = Str_posterior
        /\ p[2].name = Str_theta
        /\ Len(RemainingDims(p[2], dimensions)) = 2

DocstringTupleFormat ==
    PyTuple(<< <<(<<",">>), (<<"[">>), (<<"]">>)>>, <<(<<"_">>), (<<>>)>> >>)

(* C12: with group_info true and index_origin 0 the element (0,0) of theta *)
(* of the group posterior is keyed "theta_posterior[0,0]" under brackets,  *)
(* "theta_posterior_0_0_" under underscore and                             *)
(* "theta_ARVIZ_GROUP_posterior__ARVIZ_CDS_SELECTION_0_0" under cds, and   *)
(* the tuple ((",", "[", "]"), ("_", "")) gives the key of brackets.       *)
C12_DocumentedKeysWithGroupInfo ==
    (/\ FlattenDone
     /\ fl_args.group_info
     /\ index_origin = 0
     /\ ThetaOfPosteriorHasTwoIndices) =>
        /\ FormatNamed(Str_brackets) => Doc_theta_posterior_brackets \in DOMAIN fl_ret
        /\ FormatNamed(Str_underscore) => Doc_theta_posterior_underscore \in DOMAIN fl_ret
        /\ FormatNamed(Str_cds) => Doc_theta_posterior_cds \in DOMAIN fl_ret
        /\ fl_args.var_name_format = DocstringTupleFormat =>
               Doc_theta_posterior_brackets \in DOMAIN fl_ret

\* exactly one selected group is present on the data, and it is selected once
FlattenSingleGroup ==
    /\ Cardinality({i \in 1..Len(groups) : HasGroup(fl_args.data, groups[i])}) = 1
    /\ FlattenedVariables # {}

\* the key under which the call stores the entry of variable v of group g at loc
StoredKey(g, v, loc) ==
    IF RemainingDims(v, dimensions) = <<>>
    THEN ScalarKey(v.name, g.name, fl_args.group_info, separators)
    ELSE IndexedKey(v.name, g.name, fl_args.group_info, separators, loc, index_origin)

\* the values of v at loc along the stacked axis, in stacked order
OriginalValues(g, v, loc) ==
    LET sizes == [k \in 1..Len(dimensions) |-> g.sizes[dimensions[k]]]
        \* the stacked position number n (from 0): index of each stacked dimension
        StackedIndex(n, k) ==
            LET RECURSIVE Stride(_)
                Stride(j) == IF j > Len(dimensions) THEN 1 ELSE sizes[j] * Stride(j + 1)
            IN  (n \div Stride(k + 1)) % sizes[k]
        total == LET RECURSIVE Prod(_)
                     Prod(j) == IF j > Len(dimensions) THEN 1 ELSE sizes[j] * Prod(j + 1)
                 IN  Prod(1)
        rem == RemainingDims(v, dimensions)
    IN  [n \in 1..total |->
            [kind |-> "value", of |-> <<g.name, v.name>>,
             at |-> [k \in 1..Len(v.dims) |->
                        IF InSeq(v.dims[k], dimensions)
                        THEN StackedIndex(n - 1, PositionIn(v.dims[k], dimensions))
                        ELSE loc[PositionIn(v.dims[k], rem)]]]]

\* the entries of the flattened variables: <<group, variable, loc>>
FlattenedEntries ==
    UNION {{<<p[1], p[2], loc>> : loc \in IndexCombinations(p[1], p[2])} :
               p \in FlattenedVariables}

\* the entry is stored under its key with the original values
EntryRecovered(e) ==
    /\ StoredKey(e[1], e[2], e[3]) \in DOMAIN fl_ret
    /\ fl_ret[StoredKey(e[1], e[2], e[3])] = OriginalValues(e[1], e[2], e[3])

\* no other index combination of the same variable has the key of the entry
OwnKeysDistinct(e) ==
    \A loc \in IndexCombinations(e[1], e[2]) :
        loc # e[3] => StoredKey(e[1], e[2], loc) # StoredKey(e[1], e[2], e[3])

\* the original statement of C13: for a single group every entry of every
\* flattened variable is recovered from the result and no two index
\* combinations of a variable share a key
C13_LosslessForEveryFormat ==
    (FlattenDone /\ FlattenSingleGroup) =>
        \A e \in FlattenedEntries : EntryRecovered(e) /\ OwnKeysDistinct(e)

Digits == {"0", "1", "2", "3", "4", "5", "6", "7", "8", "9"}

\* the join separator is not empty and holds no digit (so for "brackets",
\* "underscore" and "cds")
JoinSeparatorSplits ==
    /\ separators.dim_join_separator # <<>>
    /\ \A i \in 1..Len(separators.dim_join_separator) :
           separators.dim_join_separator[i] \notin Digits

\* no entry of another variable, and no stacked dimension name, has the key
NoForeignKey(e) ==
    /\ StoredKey(e[1], e[2], e[3]) \notin Range(dimensions)
    /\ \A f \in FlattenedEntries :
           f[2] # e[2] => StoredKey(f[1], f[2], f[3]) # StoredKey(e[1], e[2], e[3])

(* C13 (amended): for a single group and a join separator that is not      *)
(* empty and holds no digit, no two index combinations of a variable share *)
(* a key, and every entry whose key no other variable and no stacked       *)
(* dimension name produces is stored with the variable's values at that    *)
(* index combination, element by element in stacked order.                 *)
C13_LosslessWithSplittingSeparator ==
    (FlattenDone /\ FlattenSingleGroup /\ JoinSeparatorSplits) =>
        \A e \in FlattenedEntries :
            /\ OwnKeysDistinct(e)
            /\ NoForeignKey(e) => EntryRecovered(e)

\* two-digit indices under "underscore": theta_1_11 and theta_11_1 are both stored
C13_Witness ==
    /\ FlattenDone
    /\ FlattenSingleGroup
    /\ JoinSeparatorSplits
    /\ fl_args.data = WideInferenceData
    /\ ~fl_args.group_info
    /\ index_origin = 1
    /\ (Str_theta \o <<"_", "1", "_", "1", "1">>) \in DOMAIN fl_ret
    /\ (Str_theta \o <<"_", "1", "1", "_", "1">>) \in DOMAIN fl_ret

-----------------------------------------------------------------------------
(* The dimension entries of flatten_inference_data_to_dict. *)

\* a call is past its option handling (utils.py:503)
FlattenLooping == fl_pc \in {"loop", "done"}

\* the labels of stacked dimension d of group g along the stacked axis: the
\* stacked axis runs over the dimensions in their given order, the last fastest
StackedLabels(g, d) ==
    LET sizes == [k \in 1..Len(dimensions) |-> g.sizes[dimensions[k]]]
        RECURSIVE Stride(_)
        Stride(j) == IF j > Len(dimensions) THEN 1 ELSE sizes[j] * Stride(j + 1)
        p == PositionIn(d, dimensions)
    IN  [n \in 1..Stride(1) |->
            [kind |-> "label", of |-> d,
             at |-> g.coords[d][(((n - 1) \div Stride(p + 1)) % sizes[p]) + 1]]]

\* the group of the first variable that was processed
FirstProcessedGroup == GetGroup(fl_args.data, fl_processed[1][1])

\* every stacked dimension name is a key of dict holding the labels of that
\* dimension as the first processed variable has them
DimensionEntriesIn(dict) ==
    \A i \in 1..Len(dimensions) :
        /\ dimensions[i] \in DOMAIN dict
        /\ dict[dimensions[i]] = StackedLabels(FirstProcessedGroup, dimensions[i])

\* a dimension entry, once written, stays as it is
DimensionEntriesKept ==
    FlattenLooping =>
        \A i \in 1..Len(dimensions) :
            dimensions[i] \in DOMAIN data_dict =>
                /\ dimensions[i] \in DOMAIN data_dict'
                /\ data_dict'[dimensions[i]] = data_dict[dimensions[i]]

\* the original statement of C14: every call that returns has the dimension
\* entries in its result
C14_EveryReturnHasDimensionEntries ==
    /\ [](FlattenDone => (fl_processed # <<>> /\ DimensionEntriesIn(fl_ret)))
    /\ [][DimensionEntriesKept]_vars

\* no variable entry is stored under the name of a stacked dimension
NoVariableKeyIsDimension ==
    \A e \in FlattenedEntries : StoredKey(e[1], e[2], e[3]) \notin Range(dimensions)

(* C14 (amended): in every call that processes at least one variable and   *)
(* stores no variable entry under the name of a stacked dimension, from    *)
(* the first processed variable on and in the result, each stacked         *)
(* dimension name is a key holding the labels of that dimension along the  *)
(* stacked axis as the group of the first processed variable has them; the *)
(* entry is never overwritten by a later variable or a later group.        *)
C14_DimensionEntriesOnceProcessed ==
    /\ []((FlattenLooping /\ fl_processed # <<>> /\ NoVariableKeyIsDimension) =>
              DimensionEntriesIn(data_dict))
    /\ []((FlattenDone /\ fl_processed # <<>> /\ NoVariableKeyIsDimension) =>
              DimensionEntriesIn(fl_ret))
    /\ [][(FlattenLooping /\ NoVariableKeyIsDimension) => DimensionEntriesKept]_vars

\* a call over the prior (one chain) and then the posterior (NumChains chains)
\* has returned: the entries are those of the prior
C14_Witness ==
    /\ FlattenDone
    /\ Len(fl_processed) >= 2
    /\ fl_processed[1][1] = Str_prior
    /\ fl_processed[Len(fl_processed)][1] = Str_posterior
    /\ Str_chain \in DOMAIN fl_ret
    /\ Len(fl_ret[Str_chain]) = NumDraws

-----------------------------------------------------------------------------
(* The var_names filter of flatten_inference_data_to_dict. *)

\* name is one of the names given by var_names: the string itself, or a
\* member of the list
IsNameGiven(name) ==
    IF fl_args.var_names.kind = "str" THEN name = fl_args.var_names.val
    ELSE InSeq(name, fl_args.var_names.val)

\* the <<group, variable>> passes of the loops of utils.py:504-507 so far
PassesSoFar ==
    {<<groups[i], GetGroup(fl_args.data, groups[i]).vars[j].name>> :
        <<i, j>> \in {ij \in (1..Len(groups)) \X (1..MaxDatasetVars) :
                        /\ HasGroup(fl_args.data, groups[ij[1]])
                        /\ ij[2] <= Len(GetGroup(fl_args.data, groups[ij[1]]).vars)
                        /\ \/ ij[1] < group_idx
                           \/ ij[1] = group_idx /\ ij[2] < var_idx}}

(* C15: a variable is processed if and only if var_names is None or the    *)
(* variable's name is one of the names given; for a single string S only   *)
(* the variable named exactly S is processed.                              *)
C15_FilterSelectsByExactName ==
    FlattenLooping =>
        \A p \in PassesSoFar :
            p \in Range(fl_processed) <=>
                (fl_args.var_names = NoneValue \/ IsNameGiven(p[2]))

-----------------------------------------------------------------------------
(* The Numba toggle and the lazily compiled functions, utils.py:94-137,    *)
(* 199-221 and 254-276.                                                    *)

NumInstances == 2    \* wrapped functions made by conditional_jit
MaxCalls == 3        \* calls of wrapped functions in one run

Instances == 1..NumInstances

\* utils.py:254-257
numba_check == numba_installed

\* self.function of instance i
PlainFunction(i) == [callable |-> "function", of |-> i]

\* numba.jit(**self.kwargs)(self.function) of instance i
JitFunction(i) == [callable |-> "numba.jit", of |-> i]

\* utils.py:122-130: the getter of numba_fn
NumbaFnGetter(i, importable) ==
    IF importable THEN JitFunction(i) ELSE PlainFunction(i)

\* mutant of LazyPropertyGet: the value is not set on the instance
LazyPropertyGet_NoSetattr(attrs, i, importable) ==
    IF i \in DOMAIN attrs
    THEN [value |-> attrs[i], attrs |-> attrs, getter_ran |-> FALSE]
    ELSE [value |-> NumbaFnGetter(i, importable), attrs |-> attrs, getter_ran |-> TRUE]

\* utils.py:104-111: reading self.numba_fn; an attribute set on the instance
\* hides the descriptor, otherwise __get__ calls the getter and sets the
\* attribute
LazyPropertyGet(attrs, i, importable) ==
    IF i \in DOMAIN attrs
    THEN [value |-> attrs[i], attrs |-> attrs, getter_ran |-> FALSE]
    ELSE LET value == NumbaFnGetter(i, importable)
         IN  [value |-> value, attrs |-> (i :> value) @@ attrs, getter_ran |-> TRUE]

\* utils.py:132-137: maybe_numba_fn.__call__
MaybeNumbaCall(flag, attrs, i, importable) ==
    IF flag THEN LazyPropertyGet(attrs, i, importable)
    ELSE [value |-> PlainFunction(i), attrs |-> attrs, getter_ran |-> FALSE]

\* mutant of EnableNumbaResult: the flag is set without asking numba_check
EnableNumbaResult_Unchecked(installed, flag) ==
    [flag |-> TRUE, exc |-> NoException]

\* utils.py:270-276: Numba.enable_numba
EnableNumbaResult(installed, flag) ==
    IF installed THEN [flag |-> TRUE, exc |-> NoException]
    ELSE [flag |-> flag, exc |-> [kind |-> "ValueError"]]

\* the module is loaded: Numba.numba_flag = numba_check() (utils.py:263); a
\* module that is not installed cannot be imported
InitNumba ==
    /\ numba_installed \in BOOLEAN
    /\ numba_importable \in {b \in BOOLEAN : b => numba_installed}
    /\ numba_flag = numba_check
    /\ nb_instances = {}
    /\ numba_fn = <<>>
    /\ nb_getter_runs = [i \in Instances |-> 0]
    /\ nb_calls = 0
    /\ nb_last = NoValue
    /\ VarNamesIdle
    /\ FlattenIdle
    /\ PlotForestIdle

\* utils.py:199-221: conditional_jit wraps a function
ConditionalJit(i) ==
    /\ i \notin nb_instances
    /\ nb_instances' = nb_instances \cup {i}
    /\ nb_last' = [op |-> "conditional_jit", instance |-> i, flag_before |-> numba_flag,
                   ran |-> NoValue, getter_ran |-> FALSE, exc |-> NoException]
    /\ UNCHANGED <<numba_installed, numba_importable, numba_flag, numba_fn,
                   nb_getter_runs, nb_calls>>
    /\ UNCHANGED <<vnVars, flVars, pfVars>>

\* utils.py:265-268
DisableNumba ==
    /\ numba_flag' = FALSE
    /\ nb_last' = [op |-> "disable_numba", instance |-> 0, flag_before |-> numba_flag,
                   ran |-> NoValue, getter_ran |-> FALSE, exc |-> NoException]
    /\ UNCHANGED <<numba_installed, numba_importable, nb_instances, numba_fn,
                   nb_getter_runs, nb_calls>>
    /\ UNCHANGED <<vnVars, flVars, pfVars>>

\* utils.py:270-276
EnableNumba ==
    /\ LET r == EnableNumbaResult(numba_check, numba_flag)
       IN  /\ numba_flag' = r.flag
           /\ nb_last' = [op |-> "enable_numba", instance |-> 0,
                          flag_before |-> numba_flag, ran |-> NoValue,
                          getter_ran |-> FALSE, exc |-> r.exc]
    /\ UNCHANGED <<numba_installed, numba_importable, nb_instances, numba_fn,
                   nb_getter_runs, nb_calls>>
    /\ UNCHANGED <<vnVars, flVars, pfVars>>

\* utils.py:132-137: a call of the wrapped function i
NumbaCall(i) ==
    /\ i \in nb_instances
    /\ nb_calls < MaxCalls
    /\ LET r == MaybeNumbaCall(numba_flag, numba_fn, i, numba_importable)
       IN  /\ numba_fn' = r.attrs
           /\ nb_getter_runs' = [nb_getter_runs EXCEPT
                                    ![i] = IF r.getter_ran THEN @ + 1 ELSE @]
           /\ nb_last' = [op |-> "call", instance |-> i, flag_before |-> numba_flag,
                          ran |-> r.value, getter_ran |-> r.getter_ran,
                          exc |-> NoException]
    /\ nb_calls' = nb_calls + 1
    /\ UNCHANGED <<numba_installed, numba_importable, numba_flag, nb_instances>>
    /\ UNCHANGED <<vnVars, flVars, pfVars>>

NextNumba ==
    \/ \E i \in Instances : ConditionalJit(i)
    \/ DisableNumba
    \/ EnableNumba
    \/ \E i \in Instances : NumbaCall(i)

SpecNumba == InitNumba /\ [][NextNumba]_vars

-----------------------------------------------------------------------------
(* Properties of the Numba toggle and of the memoised numba_fn. *)

\* effect of each toggle on the flag; the installation status is fixed
C18_Step ==
    /\ numba_installed' = numba_installed
    /\ nb_last' # NoValue =>
           /\ nb_last'.op = "disable_numba" =>
                  numba_flag' = FALSE /\ nb_last'.exc = NoException
           /\ (nb_last'.op = "enable_numba" /\ numba_installed) =>
                  numba_flag' = TRUE /\ nb_last'.exc = NoException
           /\ (nb_last'.op = "enable_numba" /\ ~numba_installed) =>
                  /\ nb_last'.exc = [kind |-> "ValueError"]
                  /\ numba_flag' = nb_last'.flag_before
           /\ nb_last'.op \in {"call", "conditional_jit"} =>
                  numba_flag' = nb_last'.flag_before

(* C18: the flag starts equal to numba_check(); after any sequence of       *)
(* enable_numba and disable_numba calls it is true only if numba is        *)
(* installed; disable_numba sets it false; enable_numba sets it true when  *)
(* numba is installed and otherwise raises ValueError and leaves the flag. *)
C18_FlagOnlyIfInstalled ==
    /\ numba_flag = numba_installed
    /\ [](numba_flag => numba_installed)
    /\ [][C18_Step]_vars

\* enable_numba was refused with ValueError, and the flag stayed off
C18_Witness ==
    /\ nb_last # NoValue
    /\ nb_last.op = "enable_numba"
    /\ nb_last.exc = [kind |-> "ValueError"]
    /\ ~numba_installed
    /\ ~numba_flag

\* a step that is a call of wrapped function i
IsCallOf(i) == nb_calls' = nb_calls + 1 /\ nb_last'.instance = i

C19_Step ==
    \A i \in Instances :
        IsCallOf(i) =>
            \* no getter run while the flag is false
            /\ ~numba_flag =>
                   /\ nb_getter_runs' = nb_getter_runs
                   /\ numba_fn' = numba_fn
                   /\ nb_last'.ran = PlainFunction(i)
            \* the first access with the flag true memoises
            /\ (numba_flag /\ i \notin DOMAIN numba_fn) =>
                   /\ i \in DOMAIN numba_fn'
                   /\ nb_getter_runs'[i] = nb_getter_runs[i] + 1
                   /\ nb_last'.ran = numba_fn'[i]
            \* a later call with the flag true uses the memoised function
            /\ (numba_flag /\ i \in DOMAIN numba_fn) =>
                   /\ nb_getter_runs' = nb_getter_runs
                   /\ numba_fn' = numba_fn
                   /\ nb_last'.ran = numba_fn[i]

-----------------------------------------------------------------------------
(* plot_forest, plots/forestplot.py:158-230, with credible_interval_warning *)
(* (utils.py:606-628).  An interval width is a number of hundredths.        *)

PyFloat(hundredths) == [kind |-> "float", val |-> hundredths]

Str_matplotlib == <<"m", "a", "t", "p", "l", "o", "t", "l", "i", "b">>
Str_bokeh == <<"b", "o", "k", "e", "h">>
Str_Bokeh == <<"B", "o", "k", "e", "h">>

\* truth value of None or of a number
Truthy(v) == v # NoneValue /\ v.val # 0

\* utils.py:606-628
CredibleIntervalWarning(credible_interval, hpd) ==
    IF Truthy(hpd)
    THEN [warned |-> TRUE, ret |-> NoValue, exc |-> [kind |-> "Exception"]]
    ELSE [warned |-> TRUE, ret |-> credible_interval, exc |-> NoException]

\* forestplot.py:161-162 and 167: data as a list, then the datasets in
\* reversed order
ReversedDatasets(d) ==
    LET l == IF d.kind = "seq" THEN d.val ELSE <<d.val>>
    IN  [kind |-> "seq", val |-> [k \in 1..Len(l) |-> l[Len(l) + 1 - k]]]

\* forestplot.py:176-184
Columns(ess, r_hat) ==
    LET w1 == IF ess THEN <<3, 1>> ELSE <<3>>
        w2 == IF r_hat THEN Append(w1, 1) ELSE w1
    IN  [ncols |-> Len(w2), width_ratios |-> w2]

\* forestplot.py:189: 1 >= hpd_interval > 0
IntervalInRange(w) == 100 >= w.val /\ w.val > 0

PlotForestWidths == {NoneValue, PyFloat(-50), PyFloat(0), PyFloat(50), PyFloat(100),
                     PyFloat(150)}

PlotForestArgs ==
    [data : {[kind |-> "single", val |-> <<(<<"a">>)>>],
             [kind |-> "seq", val |-> << <<(<<"a">>)>>, <<(<<"b", "a">>), (<<"a">>)>> >>]},
     var_names : {NoneValue, PyList(<<(<<"a">>)>>), PyList(<<(<<"b">>)>>)},
     filter_vars : {NoneValue},
     hpd_interval : PlotForestWidths,
     credible_interval : PlotForestWidths,
     ess : BOOLEAN,
     r_hat : BOOLEAN,
     backend : {NoneValue, PyStr(Str_Bokeh)}]

InitPlotForest ==
    /\ pf_args \in PlotForestArgs
    /\ pf_rc = [hpd_interval |-> PyFloat(94), backend |-> Str_matplotlib]
    /\ pf_pc = "credible"
    /\ pf_hpd_interval = pf_args.hpd_interval
    /\ pf_datasets = NoValue
    /\ pf_var_names = pf_args.var_names
    /\ pf_ncols = 0
    /\ pf_width_ratios = <<>>
    /\ pf_warned = FALSE
    /\ pf_plot_kwargs = NoValue
    /\ pf_exc = NoException
    /\ VarNamesIdle
    /\ FlattenIdle
    /\ NumbaIdle

\* forestplot.py:158-159
PlotForestCredible ==
    /\ pf_pc = "credible"
    /\ IF Truthy(pf_args.credible_interval)
       THEN LET r == CredibleIntervalWarning(pf_args.credible_interval, pf_hpd_interval)
            IN  /\ pf_warned' = r.warned
                /\ pf_exc' = r.exc
                /\ IF r.exc = NoException
                   THEN pf_hpd_interval' = r.ret /\ pf_pc' = "datasets"
                   ELSE pf_pc' = "raised" /\ UNCHANGED pf_hpd_interval
       ELSE /\ pf_pc' = "datasets"
            /\ UNCHANGED <<pf_warned, pf_exc, pf_hpd_interval>>
    /\ UNCHANGED <<pf_args, pf_rc, pf_datasets, pf_var_names, pf_ncols,
                   pf_width_ratios, pf_plot_kwargs>>
    /\ UNCHANGED <<vnVars, flVars, nbVars>>

\* forestplot.py:161-172
PlotForestDatasets ==
    /\ pf_pc = "datasets"
    /\ pf_datasets' = ReversedDatasets(pf_args.data)
    /\ pf_pc' = "var_names"
    /\ UNCHANGED <<pf_args, pf_rc, pf_hpd_interval, pf_var_names, pf_ncols,
                   pf_width_ratios, pf_warned, pf_plot_kwargs, pf_exc>>
    /\ UNCHANGED <<vnVars, flVars, nbVars>>

\* forestplot.py:174
PlotForestVarNames ==
    /\ pf_pc = "var_names"
    /\ LET r == VarNamesCall(pf_var_names, pf_datasets, pf_args.filter_vars)
       IN  /\ pf_warned' = (pf_warned \/ r.warned)
           /\ IF r.exc = NoException
              THEN /\ pf_var_names' = r.ret
                   /\ pf_pc' = "columns"
                   /\ UNCHANGED pf_exc
              ELSE /\ pf_exc' = r.exc
                   /\ pf_pc' = "raised"
                   /\ UNCHANGED pf_var_names
    /\ UNCHANGED <<pf_args, pf_rc, pf_hpd_interval, pf_datasets, pf_ncols,
                   pf_width_ratios, pf_plot_kwargs>>
    /\ UNCHANGED <<vnVars, flVars, nbVars>>

\* forestplot.py:176-184
PlotForestColumns ==
    /\ pf_pc = "columns"
    /\ pf_ncols' = Columns(pf_args.ess, pf_args.r_hat).ncols
    /\ pf_width_ratios' = Columns(pf_args.ess, pf_args.r_hat).width_ratios
    /\ pf_pc' = "interval"
    /\ UNCHANGED <<pf_args, pf_rc, pf_hpd_interval, pf_datasets, pf_var_names,
                   pf_warned, pf_plot_kwargs, pf_exc>>
    /\ UNCHANGED <<vnVars, flVars, nbVars>>

\* forestplot.py:186-190
PlotForestInterval ==
    /\ pf_pc = "interval"
    /\ IF pf_hpd_interval = NoneValue
       THEN /\ pf_hpd_interval' = pf_rc.hpd_interval
            /\ pf_pc' = "backend"
            /\ UNCHANGED pf_exc
       ELSE IF ~IntervalInRange(pf_hpd_interval)
       THEN /\ pf_exc' = [kind |-> "ValueError"]
            /\ pf_pc' = "raised"
            /\ UNCHANGED pf_hpd_interval
       ELSE /\ pf_pc' = "backend"
            /\ UNCHANGED <<pf_hpd_interval, pf_exc>>
    /\ UNCHANGED <<pf_args, pf_rc, pf_datasets, pf_var_names, pf_ncols,
                   pf_width_ratios, pf_warned, pf_plot_kwargs>>
    /\ UNCHANGED <<vnVars, flVars, nbVars>>

\* forestplot.py:192-230: the backend function is called
PlotForestBackend ==
    /\ pf_pc = "backend"
    /\ LET backend == LowerStr(IF pf_args.backend = NoneValue THEN pf_rc.backend
                               ELSE pf_args.backend.val)
       IN  pf_plot_kwargs' = [datasets |-> pf_datasets,
                              var_names |-> pf_var_names,
                              width_ratios |-> pf_width_ratios,
                              ncols |-> pf_ncols,
                              hpd_interval |-> pf_hpd_interval,
                              ess |-> pf_args.ess,
                              r_hat |-> pf_args.r_hat,
                              backend |-> backend,
                              backend_config |-> (backend = Str_bokeh)]
    /\ pf_pc' = "done"
    /\ UNCHANGED <<pf_args, pf_rc, pf_hpd_interval, pf_datasets, pf_var_names,
                   pf_ncols, pf_width_ratios, pf_warned, pf_exc>>
    /\ UNCHANGED <<vnVars, flVars, nbVars>>

NextPlotForest ==
    \/ PlotForestCredible
    \/ PlotForestDatasets
    \/ PlotForestVarNames
    \/ PlotForestColumns
    \/ PlotForestInterval
    \/ PlotForestBackend

SpecPlotForest == InitPlotForest /\ [][NextPlotForest]_vars

\* a width the caller supplied
WidthSupplied(w) == w # NoneValue

\* a supplied width outside (0, 1]
WidthOutside(w) == WidthSupplied(w) /\ ~(w.val > 0 /\ w.val <= 100)

PlotForestOver == pf_pc \in {"done", "raised"}

(* C17: a call with a supplied interval width outside (0, 1], through       *)
(* hpd_interval or through credible_interval, raises ValueError and never   *)
(* invokes the backend function; a width inside (0, 1] is passed on, and    *)
(* the configured default is used only when no width was supplied.          *)
C17_WidthOutsideRaisesValueError ==
    PlotForestOver =>
        /\ (WidthOutside(pf_args.hpd_interval) \/ WidthOutside(pf_args.credible_interval)) =>
               /\ pf_exc = [kind |-> "ValueError"]
               /\ pf_plot_kwargs = NoValue
        /\ (pf_pc = "done" /\ pf_plot_kwargs.hpd_interval = pf_rc.hpd_interval) =>
               /\ ~WidthSupplied(pf_args.hpd_interval)
               /\ ~WidthSupplied(pf_args.credible_interval)

-----------------------------------------------------------------------------
(* Uniqueness of the names resolved by _var_names. *)

\* the names are resolved from the data: filter mode "like" or "regex", or
\* a specification with an exclusion pattern
ResolvedFromData == FilterMode \in {"like", "regex"} \/ ExclusionEntries # <<>>

(* C20: whenever _var_names resolves the names from the data, the returned *)
(* list holds each variable name at most once, also when a name matches    *)
(* two or more inclusion patterns.                                         *)
C20_ResolvedNamesUnique ==
    (VarNamesGiven /\ VarNamesReturnedList /\ ResolvedFromData) =>
        NoDuplicates(vn_ret.val)

====
